---- MODULE Spec2Model ----
(***************************************************************************)
(* Model of the elevation grid store and its service wrapper               *)
(* (internal/elevation/grid.go, internal/elevation/service.go).            *)
(*                                                                         *)
(* Numbers.  A coordinate (float64 degrees) is an integer count of ticks,  *)
(* Ticks ticks to the degree, 5 ticks to the last printed digit of the     *)
(* "%.4f" cache key, so that rounding to 4 decimals never meets a tie.     *)
(* An elevation (float64 metres) is an integer count of hundredths of a    *)
(* metre: the float v is written Fixed(v) = 100 * v.  The arithmetic is    *)
(* exact; probe coordinates are chosen away from the places where float64  *)
(* rounding and exact arithmetic differ.                                   *)
(***************************************************************************)
EXTENDS Integers, Sequences, FiniteSets, TLC

\* ------------------------------------------------------------ numbers

\* "%.4f": the number of decimals of a cache key component.
KeyDecimals == 4

\* Ticks to the degree.
Ticks == 5 * (10 ^ KeyDecimals)

\* The coordinate d degrees plus f ticks.
Deg(d, f) == d * Ticks + f

Abs(n) == IF n < 0 THEN 0 - n ELSE n

\* Go's int(f): truncation toward zero of the quotient n / d (d > 0).
Trunc(n, d) == IF n >= 0 THEN n \div d ELSE 0 - ((0 - n) \div d)

\* The float64 value m (a whole number) in hundredths.
Fixed(m) == m * 100

\* The "no data" cell value.
Sentinel == -9999

\* The largest cell value (int16), the landmark of generateTestData.
MaxInt16 == 32767

\* ------------------------------------------------------------ geometry

DefaultWidth == 32000
DefaultHeight == 26000
DefaultMinLat == 20
DefaultMaxLat == 46
DefaultMinLon == 122
DefaultMaxLon == 154
\* 0.001 degrees is one DefaultGridDiv-th of a degree.
DefaultGridDiv == 1000

\* A float64 reciprocal, kept as a fraction; den = 0 is +Inf.
Reciprocal(g) == [num |-> 1, den |-> g]

\* A slice that was never made.
NilGrid == [src |-> "nil", len |-> 0, cells |-> << >>]

\* NewElevationGrid: the default geometry, no cells, invGridSize 0.
NewElevationGrid ==
    [width |-> DefaultWidth, height |-> DefaultHeight,
     minLat |-> Deg(DefaultMinLat, 0), maxLat |-> Deg(DefaultMaxLat, 0),
     minLon |-> Deg(DefaultMinLon, 0), maxLon |-> Deg(DefaultMaxLon, 0),
     gridSize |-> Ticks \div DefaultGridDiv,
     invGridSize |-> [num |-> 0, den |-> 1],
     grid |-> NilGrid]

\* ------------------------------------------------------------ load

\* Go's integer division and remainder (truncated, sign of the dividend).
GoDiv(a, b) == IF (a >= 0) = (b > 0) THEN Abs(a) \div Abs(b) ELSE 0 - (Abs(a) \div Abs(b))
GoMod(a, b) == a - b * GoDiv(a, b)

\* d degrees and h hundredths of a degree.
Dec(d, h) == Deg(d, h * (Ticks \div 100))

\* generateTestData, the value of cell i: three landmark regions, and elsewhere
\* int16(500 + (x*0.01 + y*0.02)), which fits an int16 for every geometry used here.
TestDataCell(e, i) ==
    LET y == GoDiv(i, e.width)
        x == GoMod(i, e.width)
        lat == e.minLat + y * e.gridSize
        lon == e.minLon + x * e.gridSize
    IN  IF lat >= Dec(35, 36) /\ lat <= Dec(35, 37) /\ lon >= Dec(138, 72) /\ lon <= Dec(138, 73)
          THEN MaxInt16
        ELSE IF lat >= Dec(35, 68) /\ lat <= Dec(35, 69) /\ lon >= Dec(139, 76) /\ lon <= Dec(139, 77)
          THEN 300
        ELSE IF lat >= Dec(34, 68) /\ lat <= Dec(34, 69) /\ lon >= Dec(135, 52) /\ lon <= Dec(135, 53)
          THEN 2000
        ELSE Trunc(500 * 100 + x + 2 * y, 100)

\* generateTestData: make([]int16, width*height) panics on a negative length;
\* the cells are kept as the rule that computes them.
generateTestData(e) ==
    IF e.width * e.height < 0
      THEN [err |-> "panic", eg |-> e]
      ELSE [err |-> "nil",
            eg |-> [e EXCEPT !.grid = [src |-> "synthetic", len |-> e.width * e.height,
                                       cells |-> << >>]]]

\* The cell at index i of a grid (0 <= i < e.grid.len).
Cell(e, i) ==
    IF e.grid.src = "file" THEN e.grid.cells[i + 1]
    ELSE IF e.grid.src = "synthetic" THEN TestDataCell(e, i)
    ELSE 0

\* Mutant: a header file that cannot be read gives the default geometry too.
loadHeaderLenient(e, hf) ==
    IF hf.state # "ok"
      THEN [err |-> "nil",
            eg |-> [e EXCEPT !.width = DefaultWidth, !.height = DefaultHeight,
                             !.minLat = Deg(DefaultMinLat, 0), !.maxLat = Deg(DefaultMaxLat, 0),
                             !.minLon = Deg(DefaultMinLon, 0), !.maxLon = Deg(DefaultMaxLon, 0),
                             !.gridSize = Ticks \div DefaultGridDiv]]
    ELSE [err |-> "nil",
          eg |-> [e EXCEPT !.width = hf.header.Width, !.height = hf.header.Height,
                           !.minLat = hf.header.MinLat, !.maxLat = hf.header.MaxLat,
                           !.minLon = hf.header.MinLon, !.maxLon = hf.header.MaxLon,
                           !.gridSize = hf.header.GridSize]]

\* loadHeader: an absent file gives the default geometry, any other failure to
\* open or to read the whole record is an error, a record read is taken as it is.
loadHeader(e, hf) ==
    IF hf.state = "absent"
      THEN [err |-> "nil",
            eg |-> [e EXCEPT !.width = DefaultWidth, !.height = DefaultHeight,
                             !.minLat = Deg(DefaultMinLat, 0), !.maxLat = Deg(DefaultMaxLat, 0),
                             !.minLon = Deg(DefaultMinLon, 0), !.maxLon = Deg(DefaultMaxLon, 0),
                             !.gridSize = Ticks \div DefaultGridDiv]]
    ELSE IF hf.state # "ok"
      THEN [err |-> "error", eg |-> e]
    ELSE [err |-> "nil",
          eg |-> [e EXCEPT !.width = hf.header.Width, !.height = hf.header.Height,
                           !.minLat = hf.header.MinLat, !.maxLat = hf.header.MaxLat,
                           !.minLon = hf.header.MinLon, !.maxLon = hf.header.MaxLon,
                           !.gridSize = hf.header.GridSize]]

\* Mutant: a file of the wrong size falls back to the synthetic data.
loadDataLenient(e, df) ==
    IF df.state = "absent" THEN generateTestData(e)
    ELSE IF df.state # "present" THEN [err |-> "error", eg |-> e]
    ELSE IF df.size # e.width * e.height * 2 THEN generateTestData(e)
    ELSE IF df.read = "eof" THEN generateTestData(e)
    ELSE IF df.read # "ok"
      THEN [err |-> "error",
            eg |-> [e EXCEPT !.grid = [src |-> "made", len |-> e.width * e.height,
                                       cells |-> << >>]]]
    ELSE [err |-> "nil",
          eg |-> [e EXCEPT !.grid = [src |-> "file", len |-> e.width * e.height,
                                     cells |-> df.cells]]]

\* loadData: an absent file gives the synthetic data; a file that cannot be
\* opened or stat'ed, or whose size is not width*height*2, is an error; a read
\* that ends early gives the synthetic data, any other read error is an error.
loadData(e, df) ==
    IF df.state = "absent" THEN generateTestData(e)
    ELSE IF df.state # "present" THEN [err |-> "error", eg |-> e]
    ELSE IF df.size # e.width * e.height * 2 THEN [err |-> "error", eg |-> e]
    ELSE IF df.read = "eof" THEN generateTestData(e)
    ELSE IF df.read # "ok"
      THEN [err |-> "error",
            eg |-> [e EXCEPT !.grid = [src |-> "made", len |-> e.width * e.height,
                                       cells |-> << >>]]]
    ELSE [err |-> "nil",
          eg |-> [e EXCEPT !.grid = [src |-> "file", len |-> e.width * e.height,
                                     cells |-> df.cells]]]

\* LoadFromFile: header, then data, then invGridSize = 1.0 / gridSize.
LoadFromFile(e, df, hf) ==
    LET h == loadHeader(e, hf)
        d == loadData(h.eg, df)
    IN  IF h.err # "nil" THEN [err |-> h.err, eg |-> h.eg]
        ELSE IF d.err # "nil" THEN [err |-> d.err, eg |-> d.eg]
        ELSE [err |-> "nil", eg |-> [d.eg EXCEPT !.invGridSize = Reciprocal(d.eg.gridSize)]]

\* ------------------------------------------------------------ lookup

\* The bounds check of GetElevation (inclusive on both ends).
OutOfBounds(e, lat, lon) ==
    lat < e.minLat \/ lat > e.maxLat \/ lon < e.minLon \/ lon > e.maxLon

\* "%.4f" of one coordinate: the sign and the magnitude rounded to the nearest
\* 10^-4 degree (-0.00002 prints "-0.0000").
FormatCoord(c) ==
    LET q == Ticks \div (10 ^ KeyDecimals)
    IN  [neg |-> c < 0, mag |-> (2 * Abs(c) + q) \div (2 * q)]

\* fmt.Sprintf("%.4f,%.4f", lat, lon)
CacheKey(lat, lon) == << FormatCoord(lat), FormatCoord(lon) >>

\* int(d * invGridSize), for a finite invGridSize.
Scale(d, inv) == Trunc(d * inv.num, inv.den)

\* Mutant: the upper clamp is missing.
ClampNoUpper(v, n) == IF v < 0 THEN 0 ELSE v

\* if v < 0 { v = 0 }; if v >= n { v = n - 1 }
Clamp(v, n) ==
    LET a == IF v < 0 THEN 0 ELSE v
    IN  IF a >= n THEN n - 1 ELSE a

\* The column and the row of a coordinate, clamped.
Column(e, lon) == Clamp(Scale(lon - e.minLon, e.invGridSize), e.width)
Row(e, lat) == Clamp(Scale(lat - e.minLat, e.invGridSize), e.height)

\* index := y*eg.width + x
CellIndex(e, lat, lon) == Row(e, lat) * e.width + Column(e, lon)

\* float64(elevationCm) / 100.0, in hundredths.
CmToMeters(cm) == Fixed(cm) \div 100

\* Mutant: the cache is probed before the bounds are checked.
LookupCacheFirst(e, cache, lat, lon) ==
    LET key == CacheKey(lat, lon)
        index == CellIndex(e, lat, lon)
    IN  IF key \in DOMAIN cache
          THEN [kind |-> "hit", val |-> cache[key], err |-> FALSE, key |-> key, index |-> -1]
        ELSE IF OutOfBounds(e, lat, lon)
          THEN [kind |-> "oob", val |-> 0, err |-> TRUE, key |-> key, index |-> -1]
        ELSE IF index < 0 \/ index >= e.grid.len
          THEN [kind |-> "panic", val |-> 0, err |-> TRUE, key |-> key, index |-> index]
        ELSE IF Cell(e, index) = Sentinel
          THEN [kind |-> "nodata", val |-> Fixed(Sentinel), err |-> FALSE, key |-> key,
                index |-> index]
        ELSE [kind |-> "miss", val |-> CmToMeters(Cell(e, index)), err |-> FALSE,
              key |-> key, index |-> index]

\* Mutant: no bounds check; a coordinate outside the box is clamped to a cell.
LookupNoBounds(e, cache, lat, lon) ==
    LET key == CacheKey(lat, lon)
        index == CellIndex(e, lat, lon)
    IN  IF key \in DOMAIN cache
          THEN [kind |-> "hit", val |-> cache[key], err |-> FALSE, key |-> key, index |-> -1]
        ELSE IF index < 0 \/ index >= e.grid.len
          THEN [kind |-> "panic", val |-> 0, err |-> TRUE, key |-> key, index |-> index]
        ELSE IF Cell(e, index) = Sentinel
          THEN [kind |-> "nodata", val |-> Fixed(Sentinel), err |-> FALSE, key |-> key,
                index |-> index]
        ELSE [kind |-> "miss", val |-> CmToMeters(Cell(e, index)), err |-> FALSE,
              key |-> key, index |-> index]

\* ElevationGrid.GetElevation up to its return or its cache store: what the
\* call finds, given the cache it reads.
Lookup(e, cache, lat, lon) ==
    LET key == CacheKey(lat, lon)
        index == CellIndex(e, lat, lon)
    IN  IF OutOfBounds(e, lat, lon)
          THEN [kind |-> "oob", val |-> 0, err |-> TRUE, key |-> key, index |-> -1]
        ELSE IF key \in DOMAIN cache
          THEN [kind |-> "hit", val |-> cache[key], err |-> FALSE, key |-> key, index |-> -1]
        ELSE IF index < 0 \/ index >= e.grid.len
          THEN [kind |-> "panic", val |-> 0, err |-> TRUE, key |-> key, index |-> index]
        ELSE IF Cell(e, index) = Sentinel
          THEN [kind |-> "nodata", val |-> Fixed(Sentinel), err |-> FALSE, key |-> key,
                index |-> index]
        ELSE [kind |-> "miss", val |-> CmToMeters(Cell(e, index)), err |-> FALSE,
              key |-> key, index |-> index]

\* sync.Map.Store
CacheStore(cache, key, val) ==
    [k \in DOMAIN cache \cup {key} |-> IF k = key THEN val ELSE cache[k]]

\* ------------------------------------------------------------ files

\* A header file holding a complete record.
HeaderOf(w, h, minLat, maxLat, minLon, maxLon, g) ==
    [state |-> "ok",
     header |-> [Width |-> w, Height |-> h, MinLat |-> minLat, MaxLat |-> maxLat,
                 MinLon |-> minLon, MaxLon |-> maxLon, GridSize |-> g]]

\* A data file that opens: its size in bytes, its cells, and how reading it ends.
DataOf(size, cells, read) ==
    [state |-> "present", size |-> size, cells |-> cells, read |-> read]

\* The files the service below is constructed from: 2 x 2 cells of 0.001
\* degrees from (35.0, 139.0), one of them holding no data.
ServingHeader ==
    HeaderOf(2, 2, Deg(35, 0), Deg(35, 100), Deg(139, 0), Deg(139, 100), Ticks \div 1000)
ServingData == DataOf(8, << 100, Sentinel, 250, 300 >>, "ok")

\* Header files: absent, not openable, shorter than the record, and records
\* (the serving one, one cell, no cell, negative sizes).
HeaderFiles ==
    { [state |-> "absent"], [state |-> "denied"], [state |-> "short"],
      ServingHeader,
      HeaderOf(1, 1, Deg(35, 0), Deg(35, 50), Deg(139, 0), Deg(139, 50), Ticks \div 1000),
      HeaderOf(0, 0, 0, 0, 0, 0, 0),
      HeaderOf(-1, 1, Deg(35, 0), Deg(35, 50), Deg(139, 0), Deg(139, 50), Ticks \div 1000),
      HeaderOf(-2, -1, Deg(35, 0), Deg(35, 50), Deg(139, 0), Deg(139, 50), Ticks \div 1000) }

\* Data files: absent, not openable, not stat-able, and files of several sizes
\* whose read succeeds, ends early or fails.
DataFiles ==
    { [state |-> "absent"], [state |-> "denied"], [state |-> "statfail"],
      ServingData,
      DataOf(8, << >>, "eof"), DataOf(8, << >>, "ioerr"),
      DataOf(7, << 100, Sentinel, 250 >>, "ok"),
      DataOf(4, << 100, 200 >>, "ok"), DataOf(4, << 100 >>, "eof"),
      DataOf(2, << 700 >>, "ok"), DataOf(2, << >>, "eof"),
      DataOf(0, << >>, "ok"),
      DataOf(DefaultWidth * DefaultHeight * 2, << >>, "eof"),
      DataOf(DefaultWidth * DefaultHeight * 2 - 2, << >>, "ok") }

\* ------------------------------------------------------------ state

\* Calls made in one run, and points of one batch.
MaxCalls == 3
MaxBatch == 2

\* The goroutines calling the service.
Workers == {1, 2}

\* Coordinates looked up one at a time, by name.
Probe ==
    [minCorner |-> << Deg(35, 0), Deg(139, 0) >>,
     lowRow    |-> << Deg(35, 48), Deg(139, 0) >>,
     highRow   |-> << Deg(35, 52), Deg(139, 0) >>,
     lowCol    |-> << Deg(35, 0), Deg(139, 48) >>,
     noData    |-> << Deg(35, 0), Deg(139, 52) >>,
     maxCorner |-> << Deg(35, 100), Deg(139, 100) >>,
     north     |-> << Deg(35, 101), Deg(139, 100) >>,
     east      |-> << Deg(35, 100), Deg(139, 101) >>,
     south     |-> << Deg(35, 0) - 1, Deg(139, 0) >>,
     west      |-> << Deg(35, 0), Deg(139, 0) - 1 >>]

Probes == { Probe[n] : n \in DOMAIN Probe }

\* Points a batch is made of, and the batches.
BatchProbes == { Probe.highRow, Probe.north }
Batches == UNION { [1..n -> BatchProbes] : n \in 0..MaxBatch }

VARIABLES
    headerFile,     \* the header file NewService is given
    dataFile,       \* the data file NewService is given
    lpc,            \* where NewService / LoadFromFile stands
    eg,             \* the ElevationGrid (geometry, invGridSize, grid)
    hotspotCache,   \* ElevationGrid.hotspotCache: key -> elevation
    requests,       \* Service.requests
    mu,             \* Service.mu: 0, or the goroutine holding the write lock
    th,             \* each goroutine: its call, its locals, its last return
    ncalls,         \* history: calls made
    issued,         \* history: calls made, a batch counted by its length
    first           \* history: what the first Service.GetElevation at a coordinate returned

vars == << headerFile, dataFile, lpc, eg, hotspotCache, requests, mu, th, ncalls, issued, first >>

NoRet == [kind |-> "none"]

\* A goroutine between calls, the last one returning ret.
Idle(lat, lon, points, ret) ==
    [pc |-> "idle", kind |-> ret.kind, lat |-> lat, lon |-> lon, points |-> points,
     i |-> 0, tmp |-> 0, key |-> << >>, elev |-> 0, index |-> -1, elevs |-> << >>,
     ret |-> ret]

\* The state NewService starts from.
InitLoad ==
    /\ headerFile \in HeaderFiles
    /\ dataFile \in DataFiles
    /\ lpc = "header"
    /\ eg = NewElevationGrid
    /\ hotspotCache = << >>
    /\ requests = 0
    /\ mu = 0
    /\ th = [w \in Workers |-> Idle(0, 0, << >>, NoRet)]
    /\ ncalls = 0
    /\ issued = 0
    /\ first = << >>

\* The state NewService(ServingData, ServingHeader) returns in.
Init ==
    /\ headerFile = ServingHeader
    /\ dataFile = ServingData
    /\ lpc = "serving"
    /\ eg = LoadFromFile(NewElevationGrid, ServingData, ServingHeader).eg
    /\ hotspotCache = << >>
    /\ requests = 0
    /\ mu = 0
    /\ th = [w \in Workers |-> Idle(0, 0, << >>, NoRet)]
    /\ ncalls = 0
    /\ issued = 0
    /\ first = << >>

\* ------------------------------------------------------------ construction

serving == << hotspotCache, requests, mu, th, ncalls, issued, first >>

\* LoadFromFile, line 48: loadHeader.
LoadHeaderStep ==
    /\ lpc = "header"
    /\ LET r == loadHeader(eg, headerFile)
       IN  /\ eg' = r.eg
           /\ lpc' = IF r.err = "nil" THEN "data" ELSE "failed"
    /\ UNCHANGED << headerFile, dataFile, serving >>

\* LoadFromFile, line 52: loadData.
LoadDataStep ==
    /\ lpc = "data"
    /\ LET r == loadData(eg, dataFile)
       IN  /\ eg' = r.eg
           /\ lpc' = IF r.err = "nil" THEN "inv"
                     ELSE IF r.err = "panic" THEN "panicked" ELSE "failed"
    /\ UNCHANGED << headerFile, dataFile, serving >>

\* LoadFromFile, line 56: invGridSize, and the return of nil.
SetInvStep ==
    /\ lpc = "inv"
    /\ eg' = [eg EXCEPT !.invGridSize = Reciprocal(eg.gridSize)]
    /\ lpc' = "loaded"
    /\ UNCHANGED << headerFile, dataFile, serving >>

\* NewService returns a Service: the grid, requests = 0.
NewServiceOk ==
    /\ lpc = "loaded"
    /\ lpc' = "serving"
    /\ requests' = 0
    /\ UNCHANGED << headerFile, dataFile, eg, hotspotCache, mu, th, ncalls, issued, first >>

\* NewService returns nil and the error.
NewServiceErr ==
    /\ lpc = "failed"
    /\ lpc' = "noservice"
    /\ UNCHANGED << headerFile, dataFile, eg, serving >>

NextLoad ==
    \/ LoadHeaderStep
    \/ LoadDataStep
    \/ SetInvStep
    \/ NewServiceOk
    \/ NewServiceErr

SpecLoad == InitLoad /\ [][NextLoad]_vars

\* ------------------------------------------------------------ service

boot == << headerFile, dataFile, lpc, eg >>

\* Mutant: a Lock that excludes nobody.
CanLockBroken(m) == TRUE

\* sync.RWMutex: Lock succeeds when nobody holds the lock.
CanLock(m) == m = 0

\* sync.RWMutex: RLock succeeds when no writer holds the lock.
CanRLock(m) == m = 0

\* Mutant: the counter is set, not added to.
IncrementOverwrite(old, n) == n

\* s.requests++ / s.requests += uint64(len(points)): the value written, from
\* the value read.  (uint64: no run reaches its limit from 0.)
Increment(old, n) == old + n

\* Mutant: a batch counts as one request.
UnitsOne(t) == 1

\* What a call adds to the counter.
Units(t) == IF t.kind = "batch" THEN Len(t.points) ELSE 1

\* The first value returned for a coordinate is kept.
Remember(f, p, val) ==
    IF p \in DOMAIN f THEN f ELSE [q \in DOMAIN f \cup {p} |-> IF q = p THEN val ELSE f[q]]

\* Service.GetElevation, lines 30-31: Lock, and the read of s.requests.
SingleCall(w, p) ==
    /\ lpc = "serving"
    /\ th[w].pc = "idle"
    /\ ncalls < MaxCalls
    /\ CanLock(mu)
    /\ mu' = w
    /\ th' = [th EXCEPT ![w] =
                [Idle(p[1], p[2], << >>, NoRet)
                    EXCEPT !.pc = "incr", !.kind = "single", !.tmp = requests]]
    /\ ncalls' = ncalls + 1
    /\ issued' = issued + 1
    /\ UNCHANGED << boot, hotspotCache, requests, first >>

\* Service.GetBatchElevations, lines 49-50: Lock, and the read of s.requests.
BatchCall(w, ps) ==
    /\ lpc = "serving"
    /\ th[w].pc = "idle"
    /\ ncalls < MaxCalls
    /\ CanLock(mu)
    /\ mu' = w
    /\ th' = [th EXCEPT ![w] =
                [Idle(0, 0, ps, NoRet)
                    EXCEPT !.pc = "incr", !.kind = "batch", !.tmp = requests]]
    /\ ncalls' = ncalls + 1
    /\ issued' = issued + Len(ps)
    /\ UNCHANGED << boot, hotspotCache, requests, first >>

\* The write of s.requests and Unlock (service.go lines 31-32, 50-51); the
\* call then delegates to the grid.
IncrementStep(w) ==
    /\ th[w].pc = "incr"
    /\ requests' = Increment(th[w].tmp, Units(th[w]))
    /\ mu' = IF mu = w THEN 0 ELSE mu
    /\ th' = [th EXCEPT ![w].pc = IF th[w].kind = "batch" THEN "loop" ELSE "probe",
                        ![w].i = 1]
    /\ UNCHANGED << boot, hotspotCache, ncalls, issued, first >>

\* ElevationGrid.GetElevation, lines 151-183, for Service.GetElevation: the
\* bounds check, the cache probe, the cell read; it returns, or goes on to store.
ProbeStep(w) ==
    /\ th[w].pc = "probe"
    /\ LET r == Lookup(eg, hotspotCache, th[w].lat, th[w].lon)
       IN  /\ th' = [th EXCEPT ![w] =
                    IF r.kind = "panic"
                      THEN [@ EXCEPT !.pc = "panicked", !.index = r.index]
                    ELSE IF r.kind = "miss"
                      THEN [@ EXCEPT !.pc = "store", !.key = r.key, !.elev = r.val,
                                     !.index = r.index]
                    ELSE [@ EXCEPT !.pc = "idle", !.index = r.index,
                                   !.ret = [kind |-> "single", val |-> r.val, err |-> r.err,
                                            how |-> r.kind]]]
           /\ first' = IF r.kind \in {"hit", "nodata"}
                         THEN Remember(first, << th[w].lat, th[w].lon >>, r.val)
                         ELSE first
    /\ UNCHANGED << boot, hotspotCache, requests, mu, ncalls, issued >>

\* ElevationGrid.GetElevation, lines 185-187: the cache store and the return.
StoreStep(w) ==
    /\ th[w].pc = "store"
    /\ hotspotCache' = CacheStore(hotspotCache, th[w].key, th[w].elev)
    /\ th' = [th EXCEPT ![w].pc = "idle",
                        ![w].ret = [kind |-> "single", val |-> th[w].elev, err |-> FALSE,
                                    how |-> "miss"]]
    /\ first' = Remember(first, << th[w].lat, th[w].lon >>, th[w].elev)
    /\ UNCHANGED << boot, requests, mu, ncalls, issued >>

\* Mutant: an error leaves the value GetElevation returned with it.
BatchAbsorbZero(val, err) == val

\* ElevationGrid.GetBatchElevations, lines 194-198: an error becomes -9999.
BatchAbsorb(val, err) == IF err THEN Fixed(Sentinel) ELSE val

\* ElevationGrid.GetBatchElevations, one turn of the loop, up to the return of
\* GetElevation or its cache store.
BatchProbeStep(w) ==
    /\ th[w].pc = "loop"
    /\ th[w].i <= Len(th[w].points)
    /\ LET p == th[w].points[th[w].i]
           r == Lookup(eg, hotspotCache, p[1], p[2])
       IN  th' = [th EXCEPT ![w] =
                    IF r.kind = "panic"
                      THEN [@ EXCEPT !.pc = "panicked", !.index = r.index]
                    ELSE IF r.kind = "miss"
                      THEN [@ EXCEPT !.pc = "bstore", !.key = r.key, !.elev = r.val,
                                     !.index = r.index]
                    ELSE [@ EXCEPT !.i = @ + 1, !.index = r.index,
                                   !.elevs = Append(@, BatchAbsorb(r.val, r.err))]]
    /\ UNCHANGED << boot, hotspotCache, requests, mu, ncalls, issued, first >>

\* The cache store of a batch's lookup, and results[i] = elev.
BatchStoreStep(w) ==
    /\ th[w].pc = "bstore"
    /\ hotspotCache' = CacheStore(hotspotCache, th[w].key, th[w].elev)
    /\ th' = [th EXCEPT ![w].pc = "loop", ![w].i = @ + 1,
                        ![w].elevs = Append(@, BatchAbsorb(th[w].elev, FALSE))]
    /\ UNCHANGED << boot, requests, mu, ncalls, issued, first >>

\* Mutant: every result takes the first elevation.
ServiceResultsFirst(points, elevations) ==
    [i \in 1..Len(points) |->
        [Lat |-> points[i][1], Lon |-> points[i][2], Elevation |-> elevations[1]]]

\* Service.GetBatchElevations, lines 53-74: one result per input point, with
\* the point's own coordinates and the elevation at its index.
ServiceResults(points, elevations) ==
    [i \in 1..Len(points) |->
        [Lat |-> points[i][1], Lon |-> points[i][2], Elevation |-> elevations[i]]]

\* The return of Service.GetBatchElevations.
BatchReturn(w) ==
    /\ th[w].pc = "loop"
    /\ th[w].i > Len(th[w].points)
    /\ th' = [th EXCEPT ![w].pc = "idle",
                        ![w].ret = [kind |-> "batch", err |-> FALSE,
                                    results |-> ServiceResults(th[w].points, th[w].elevs)]]
    /\ UNCHANGED << boot, hotspotCache, requests, mu, ncalls, issued, first >>

\* Service.GetHealth: RLock, the read of s.requests, RUnlock, and the status.
\* (made: history, the calls made when the counter was read.)
HealthCall(w) ==
    /\ lpc = "serving"
    /\ th[w].pc = "idle"
    /\ ncalls < MaxCalls
    /\ CanRLock(mu)
    /\ th' = [th EXCEPT ![w] =
                [Idle(0, 0, << >>,
                      [kind |-> "health", status |-> "ok", total |-> requests,
                       made |-> issued])
                    EXCEPT !.kind = "health"]]
    /\ ncalls' = ncalls + 1
    /\ UNCHANGED << boot, hotspotCache, requests, mu, issued, first >>

\* Concurrent single lookups and health reads.
Next ==
    \/ \E w \in Workers : \E p \in Probes : SingleCall(w, p)
    \/ \E w \in Workers : IncrementStep(w)
    \/ \E w \in Workers : ProbeStep(w)
    \/ \E w \in Workers : StoreStep(w)
    \/ \E w \in Workers : HealthCall(w)

Spec == Init /\ [][Next]_vars

\* Coordinates looked up one at a time beside the batches.
MixedProbes == { Probe.lowRow, Probe.north }

\* Concurrent batches, single lookups and health reads.
NextBatch ==
    \/ \E w \in Workers : \E p \in MixedProbes : SingleCall(w, p)
    \/ \E w \in Workers : \E ps \in Batches : BatchCall(w, ps)
    \/ \E w \in Workers : IncrementStep(w)
    \/ \E w \in Workers : ProbeStep(w)
    \/ \E w \in Workers : StoreStep(w)
    \/ \E w \in Workers : BatchProbeStep(w)
    \/ \E w \in Workers : BatchStoreStep(w)
    \/ \E w \in Workers : BatchReturn(w)
    \/ \E w \in Workers : HealthCall(w)

SpecBatch == Init /\ [][NextBatch]_vars

\* ------------------------------------------------------------ synthetic service

\* d degrees and t ten-thousandths of a degree, plus f ticks.
Dec4(d, t, f) == Deg(d, t * (Ticks \div (10 ^ KeyDecimals)) + f)

\* Coordinates looked up on the default geometry: the landmark and
\* out-of-bounds coordinates of TestGetElevation, and two coordinates on either
\* side of the south edge of the first landmark region, 0.00004 degrees from it.
SyntheticProbe ==
    [tokyo    |-> << Dec4(35, 6812, 0), Dec4(139, 7671, 0) >>,
     fuji     |-> << Dec4(35, 3606, 0), Dec4(138, 7274, 0) >>,
     osaka    |-> << Dec4(34, 6873, 0), Dec4(135, 5262, 0) >>,
     fujiIn   |-> << Dec4(35, 3600, 2), Dec4(138, 7250, 0) >>,
     fujiOut  |-> << Dec4(35, 3600, -2), Dec4(138, 7250, 0) >>,
     north    |-> << Deg(50, 0), Deg(140, 0) >>,
     south    |-> << Deg(15, 0), Deg(140, 0) >>,
     east     |-> << Deg(35, 0), Deg(160, 0) >>,
     west     |-> << Deg(35, 0), Deg(120, 0) >>]

SyntheticProbes == { SyntheticProbe[n] : n \in DOMAIN SyntheticProbe }

\* The state NewService returns in when neither file exists: the default
\* geometry and the data of generateTestData.
InitSynthetic ==
    /\ headerFile = [state |-> "absent"]
    /\ dataFile = [state |-> "absent"]
    /\ lpc = "serving"
    /\ eg = LoadFromFile(NewElevationGrid, [state |-> "absent"], [state |-> "absent"]).eg
    /\ hotspotCache = << >>
    /\ requests = 0
    /\ mu = 0
    /\ th = [w \in Workers |-> Idle(0, 0, << >>, NoRet)]
    /\ ncalls = 0
    /\ issued = 0
    /\ first = << >>

\* Concurrent single lookups on the synthetic data.
NextSynthetic ==
    \/ \E w \in Workers : \E p \in SyntheticProbes : SingleCall(w, p)
    \/ \E w \in Workers : IncrementStep(w)
    \/ \E w \in Workers : ProbeStep(w)
    \/ \E w \in Workers : StoreStep(w)

SpecSynthetic == InitSynthetic /\ [][NextSynthetic]_vars

\* ------------------------------------------------------------ properties

AllIdle == \A w \in Workers : th[w].pc = "idle"

\* Goroutine w is back from a call of kind k.
Returned(w, k) == th[w].pc = "idle" /\ th[w].ret.kind = k

\* The bounding box, both ends included.
InBox(lat, lon) ==
    eg.minLat <= lat /\ lat <= eg.maxLat /\ eg.minLon <= lon /\ lon <= eg.maxLon

\* floor(d / gridSize) kept within 0 .. n-1, for d >= 0.
FloorCell(d, n) ==
    LET c == d \div eg.gridSize
    IN  IF c > n - 1 THEN n - 1 ELSE c

\* What the grid alone gives for a cell: its value divided by 100, or -9999
\* for the sentinel.
CellAnswer(row, col) ==
    LET cm == eg.grid.cells[row * eg.width + col + 1]
    IN  IF cm = -9999 THEN Fixed(-9999) ELSE Fixed(cm) \div 100

\* The answer the grid alone gives for a coordinate of the box: that of the
\* cell at column floor((lon-minLon)/gridSize), row floor((lat-minLat)/gridSize).
GridAnswer(lat, lon) ==
    CellAnswer(FloorCell(lat - eg.minLat, eg.height), FloorCell(lon - eg.minLon, eg.width))

\* A non-negative coordinate rounded to 4 decimals, in units of 10^-4 degree.
Rounded4(c) ==
    LET q == Ticks \div (10 ^ KeyDecimals)
    IN  (2 * c + q) \div (2 * q)

\* The non-negative coordinates that round to 4 decimals as c does.
KeyBucket(c) ==
    LET q == Ticks \div (10 ^ KeyDecimals)
        k == Rounded4(c)
    IN  (k * q - (q - 1) \div 2)..(k * q + (q - 1) \div 2)

\* The rows and the columns of the coordinates of the box that print as lat,
\* as lon, does with 4 decimals.
RowsOf(lat) ==
    { FloorCell(d - eg.minLat, eg.height) :
        d \in { c \in KeyBucket(lat) : eg.minLat <= c /\ c <= eg.maxLat } }
ColsOf(lon) ==
    { FloorCell(d - eg.minLon, eg.width) :
        d \in { c \in KeyBucket(lon) : eg.minLon <= c /\ c <= eg.maxLon } }

\* What a batch may report for point p: -9999 outside the box, else the grid's
\* answer for a coordinate of the box that prints as p does.
Answers(p) ==
    IF ~InBox(p[1], p[2]) THEN { Fixed(-9999) }
    ELSE { CellAnswer(r, c) : r \in RowsOf(p[1]), c \in ColsOf(p[2]) }

\* C1: once every call has returned, the request counter is the number of
\* GetElevation calls made plus the summed lengths of the batches made: no
\* increment is lost, whatever the interleaving.
C1_NoLostIncrement == AllIdle => requests = issued

C1_Witness ==
    /\ AllIdle
    /\ requests >= 3
    /\ \E w1, w2 \in Workers :
        /\ Returned(w1, "single")
        /\ Returned(w2, "batch")
        /\ Len(th[w2].points) = 2

\* C2: every GetElevation call at a coordinate of the box returns the answer
\* the grid alone gives for it (its own cell, divided by 100, or -9999),
\* whatever ran before or concurrently and whatever the cache holds.
C2_AnswerFromGridAlone ==
    \A w \in Workers :
        (Returned(w, "single") /\ InBox(th[w].lat, th[w].lon))
            => (~th[w].ret.err /\ th[w].ret.val = GridAnswer(th[w].lat, th[w].lon))

\* C3: a GetElevation call at a coordinate of the box returns what the first
\* call at that coordinate returned, whatever calls ran in between or beside.
C3_SameCoordinateSameValue ==
    \A w \in Workers :
        (Returned(w, "single") /\ InBox(th[w].lat, th[w].lon)
            /\ << th[w].lat, th[w].lon >> \in DOMAIN first)
            => th[w].ret.val = first[<< th[w].lat, th[w].lon >>]

\* C4: a GetElevation call at a coordinate outside the box returns the
\* out-of-bounds error with value 0, also when the cache holds the key the
\* coordinate prints as.
C4_OutOfBoundsRejected ==
    \A w \in Workers :
        (Returned(w, "single")
            /\ (th[w].lat < eg.minLat \/ th[w].lat > eg.maxLat
                \/ th[w].lon < eg.minLon \/ th[w].lon > eg.maxLon))
            => (th[w].ret.err /\ th[w].ret.val = 0 /\ th[w].ret.how = "oob")

C4_Witness ==
    \E w \in Workers :
        /\ Returned(w, "single")
        /\ th[w].lat > eg.maxLat
        /\ CacheKey(th[w].lat, th[w].lon) \in DOMAIN hotspotCache
        /\ th[w].ret.err

\* The invariant of a header, and a cell array of width*height cells.
HeaderInvariant ==
    /\ eg.width > 0 /\ eg.height > 0
    /\ eg.minLat < eg.maxLat /\ eg.minLon < eg.maxLon
    /\ eg.gridSize > 0
    /\ eg.grid.len = eg.width * eg.height

\* C5: on a grid that satisfies the header invariant, a GetElevation call at a
\* coordinate of the box, the bounds included, never fails, and the cell index
\* it reads lies in 0 .. width*height-1.
C5_InclusiveBoundsIndexSafe ==
    HeaderInvariant =>
        \A w \in Workers :
            (th[w].kind = "single" /\ InBox(th[w].lat, th[w].lon))
                => /\ th[w].pc # "panicked"
                   /\ Returned(w, "single") => ~th[w].ret.err
                   /\ th[w].pc = "store" => th[w].index # -1
                   /\ th[w].index # -1 =>
                        (0 <= th[w].index /\ th[w].index <= eg.width * eg.height - 1)

C5_Witness ==
    /\ HeaderInvariant
    /\ \E w1, w2 \in Workers :
        /\ Returned(w1, "single") /\ ~th[w1].ret.err
        /\ th[w1].lat = eg.maxLat /\ th[w1].lon = eg.maxLon
        /\ th[w1].index = eg.width * eg.height - 1
        /\ Returned(w2, "single") /\ ~th[w2].ret.err
        /\ th[w2].lat = eg.minLat /\ th[w2].lon = eg.minLon
        /\ th[w2].index = 0

\* C6: a batch of N points returns exactly N results; result i carries the
\* coordinates of point i unchanged and the elevation looked up for point i.
C6_BatchShapeAndOrder ==
    \A w \in Workers :
        Returned(w, "batch") =>
            LET ps == th[w].points
                rs == th[w].ret.results
            IN  /\ Len(rs) = Len(ps)
                /\ DOMAIN rs = 1..Len(ps)
                /\ \A i \in 1..Len(ps) :
                    /\ rs[i].Lat = ps[i][1]
                    /\ rs[i].Lon = ps[i][2]
                    /\ rs[i].Elevation = th[w].elevs[i]
                    /\ rs[i].Elevation \in Answers(ps[i])

C6_Witness ==
    \E w \in Workers :
        /\ Returned(w, "batch")
        /\ Len(th[w].points) = 2
        /\ th[w].points[1] # th[w].points[2]
        /\ th[w].ret.results[1].Elevation # th[w].ret.results[2].Elevation

\* C7: a batch never fails and never returns a partial list: each point
\* outside the box has -9999 in its own result, every other point has the
\* elevation found for it, and an empty list gives an empty list.
C7_BatchAbsorbsErrors ==
    \A w \in Workers :
        /\ th[w].kind = "batch" => th[w].pc # "panicked"
        /\ Returned(w, "batch") =>
            /\ ~th[w].ret.err
            /\ Len(th[w].ret.results) = Len(th[w].points)
            /\ \A i \in 1..Len(th[w].points) :
                LET p == th[w].points[i]
                    e == th[w].ret.results[i].Elevation
                IN  IF InBox(p[1], p[2])
                      THEN e \in Answers(p)
                      ELSE e = Fixed(-9999)

C7_Witness ==
    \E w1, w2 \in Workers :
        /\ Returned(w1, "batch")
        /\ th[w1].points = << Probe.north, Probe.highRow >>
        /\ th[w1].ret.results[1].Elevation = Fixed(-9999)
        /\ th[w1].ret.results[2].Elevation = 250
        /\ Returned(w2, "batch")
        /\ th[w2].points = << >>
        /\ th[w2].ret.results = << >>

\* C8: with GetElevation the only call that counts, the request counter is the
\* number of calls that have passed their increment, whether they then succeed,
\* hit the cache or are rejected; of two health observations the later exceeds
\* the earlier by the number of calls made in between, and the counter never
\* falls below an observation.
C8_RequestAccounting ==
    /\ requests = issued - Cardinality({ w \in Workers : th[w].pc = "incr" })
    /\ \A w \in Workers :
        th[w].pc \in {"probe", "store"} => requests >= th[w].tmp + 1
    /\ \A v, w \in Workers :
        (Returned(v, "health") /\ Returned(w, "health")
            /\ th[v].ret.made <= th[w].ret.made)
            => /\ th[w].ret.total = th[v].ret.total + (th[w].ret.made - th[v].ret.made)
               /\ th[w].ret.total >= th[v].ret.total
    /\ \A v \in Workers :
        Returned(v, "health") => requests >= th[v].ret.total

C8_Witness ==
    \E v, w \in Workers :
        /\ Returned(v, "health")
        /\ Returned(w, "health")
        /\ th[v].ret.total = 0
        /\ th[w].ret.total = 1
        /\ ncalls = MaxCalls
        /\ hotspotCache = << >>

\* The cells the header in effect asks for.
HeaderCells ==
    IF headerFile.state = "absent" THEN DefaultWidth * DefaultHeight
    ELSE headerFile.header.Width * headerFile.header.Height

HeaderTaken == headerFile.state \in {"absent", "ok"}

\* C9: a data file that exists with a size other than width*height*2 makes
\* LoadFromFile fail and NewService return no Service; the synthetic data is
\* never generated in its place.
C9_SizeMismatchFatal ==
    (HeaderTaken /\ dataFile.state = "present" /\ dataFile.size # HeaderCells * 2)
        => /\ lpc \in {"header", "data", "failed", "noservice"}
           /\ eg.grid.src # "synthetic"

C9_Witness ==
    /\ headerFile = ServingHeader
    /\ dataFile.state = "present" /\ dataFile.size = 7
    /\ lpc = "noservice"
    /\ eg.grid = NilGrid

\* The data file is absent, or is of the right size and its read ends early.
SyntheticCase ==
    \/ dataFile.state = "absent"
    \/ dataFile.state = "present" /\ dataFile.size = HeaderCells * 2 /\ dataFile.read = "eof"

\* C10: an absent header file gives exactly the default geometry; an absent
\* data file, or one whose read ends early, gives the synthetic data of
\* width*height cells; construction then does not fail, invGridSize is
\* 1/gridSize and NewService returns a Service.
C10_FallbacksNeverFail ==
    /\ (headerFile.state = "absent" /\ lpc # "header") =>
        /\ eg.width = 32000 /\ eg.height = 26000
        /\ eg.minLat = Deg(20, 0) /\ eg.maxLat = Deg(46, 0)
        /\ eg.minLon = Deg(122, 0) /\ eg.maxLon = Deg(154, 0)
        /\ eg.gridSize * 1000 = Ticks
    /\ (HeaderTaken /\ SyntheticCase) =>
        /\ lpc \in {"header", "data", "inv", "loaded", "serving"}
        /\ lpc \in {"inv", "loaded", "serving"} =>
            eg.grid = [src |-> "synthetic", len |-> eg.width * eg.height, cells |-> << >>]
        /\ lpc \in {"loaded", "serving"} => eg.invGridSize = [num |-> 1, den |-> eg.gridSize]

\* The header file exists and cannot be read as the whole record: it does not
\* open, or it ends before the record does.
HeaderMalformed == headerFile.state \in {"denied", "short"}

\* C11: when the header file exists and cannot be read as the whole record,
\* LoadFromFile fails in loadHeader, whatever the data file: the data file is
\* never examined, no cell array is made, the grid keeps what the constructor
\* gave it, and NewService returns no Service.
C11_MalformedHeaderFatal ==
    HeaderMalformed =>
        /\ lpc \in {"header", "failed", "noservice"}
        /\ eg = NewElevationGrid
        /\ requests = 0 /\ hotspotCache = << >>

C11_Witness ==
    /\ headerFile.state = "short"
    /\ dataFile.state = "absent"
    /\ lpc = "noservice"
    /\ eg.grid = NilGrid

\* The landmark regions of the synthetic data, southwest and northeast corners,
\* and the value each holds, in hundredths of a metre.
Landmarks ==
    { [lo |-> << Dec(35, 36), Dec(138, 72) >>, hi |-> << Dec(35, 37), Dec(138, 73) >>,
       val |-> 32767],
      [lo |-> << Dec(35, 68), Dec(139, 76) >>, hi |-> << Dec(35, 69), Dec(139, 77) >>,
       val |-> 300],
      [lo |-> << Dec(34, 68), Dec(135, 52) >>, hi |-> << Dec(34, 69), Dec(135, 53) >>,
       val |-> 2000] }

InRegion(lat, lon, r) ==
    r.lo[1] <= lat /\ lat <= r.hi[1] /\ r.lo[2] <= lon /\ lon <= r.hi[2]

\* The landmark coordinates of the test return 3.00, 327.67 and 20.00, and a
\* coordinate outside [20,46]x[122,154] is rejected.
LandmarkExamples ==
    \A w \in Workers :
        Returned(w, "single") =>
            /\ << th[w].lat, th[w].lon >> = SyntheticProbe.tokyo => th[w].ret.val = 300
            /\ << th[w].lat, th[w].lon >> = SyntheticProbe.fuji => th[w].ret.val = 32767
            /\ << th[w].lat, th[w].lon >> = SyntheticProbe.osaka => th[w].ret.val = 2000
            /\ (th[w].lat < Deg(20, 0) \/ th[w].lat > Deg(46, 0)
                    \/ th[w].lon < Deg(122, 0) \/ th[w].lon > Deg(154, 0))
                => th[w].ret.err /\ th[w].ret.how = "oob"

\* C12: on the default geometry with the synthetic data, every lookup at a
\* coordinate inside a landmark region returns the value of that region (3.00,
\* 327.67, 20.00 at the coordinates of the test), and every lookup outside
\* [20,46]x[122,154] fails with out-of-bounds.
C12_LandmarkScenario ==
    /\ LandmarkExamples
    /\ \A w \in Workers :
        Returned(w, "single") =>
            \A r \in Landmarks :
                InRegion(th[w].lat, th[w].lon, r)
                    => (~th[w].ret.err /\ th[w].ret.val = r.val)

\* Goroutine w is about to look up, for a single call or as entry i of a
\* batch, a coordinate outside the box.
AboutToReject(w) ==
    \/ th[w].pc = "probe" /\ ~InBox(th[w].lat, th[w].lon)
    \/ /\ th[w].pc = "loop" /\ th[w].i <= Len(th[w].points)
       /\ ~InBox(th[w].points[th[w].i][1], th[w].points[th[w].i][2])

\* C13: the step in which a lookup is rejected as out-of-bounds leaves the
\* cache, the grid and every other goroutine as they were: a single call
\* returns the error to its caller, a batch entry becomes -9999 in its batch,
\* and neither goes on to a cache store.
C13_RejectedChangesNothing ==
    [][\A w \in Workers :
        (AboutToReject(w) /\ th'[w] # th[w]) =>
            /\ hotspotCache' = hotspotCache
            /\ eg' = eg
            /\ \A v \in Workers \ {w} : th'[v] = th[v]
            /\ th[w].pc = "probe" =>
                    (th'[w].pc = "idle" /\ th'[w].ret.err /\ th'[w].ret.how = "oob")
            /\ th[w].pc = "loop" =>
                    (th'[w].pc = "loop" /\ th'[w].elevs = Append(th[w].elevs, Fixed(-9999)))]_vars

C13_Witness ==
    \E w1, w2 \in Workers :
        /\ Returned(w1, "single") /\ th[w1].ret.err /\ th[w1].ret.how = "oob"
        /\ Returned(w2, "batch")
        /\ th[w2].points = << Probe.highRow, Probe.north >>
        /\ th[w2].ret.results[2].Elevation = Fixed(-9999)
        /\ DOMAIN hotspotCache = { CacheKey(Probe.highRow[1], Probe.highRow[2]) }
        /\ hotspotCache[CacheKey(Probe.highRow[1], Probe.highRow[2])]
                = th[w2].ret.results[1].Elevation

\* Goroutine w is about to store a value in the cache.
AboutToStore(w) == th[w].pc \in {"store", "bstore"}

\* C14: all values stored under one cache key are equal: a value about to be
\* stored under a key the cache holds is the value held, and two values about
\* to be stored under one key are the same value.
C14_SameKeyWritesEqual ==
    \A v, w \in Workers :
        AboutToStore(w) =>
            /\ th[w].key \in DOMAIN hotspotCache => th[w].elev = hotspotCache[th[w].key]
            /\ (AboutToStore(v) /\ th[v].key = th[w].key) => th[v].elev = th[w].elev

\* No cache entry is -9999, no value about to be stored is, and a lookup that
\* read a cell holding the sentinel returned exactly -9999.
SentinelNotStored ==
    /\ \A k \in DOMAIN hotspotCache : hotspotCache[k] # Fixed(-9999)
    /\ \A w \in Workers :
        /\ AboutToStore(w) => th[w].elev # Fixed(-9999)
        /\ (Returned(w, "single") /\ th[w].index # -1 /\ Cell(eg, th[w].index) = -9999)
            => (th[w].ret.val = Fixed(-9999) /\ ~th[w].ret.err)

\* C15: the sentinel is never cached, and every call at a coordinate whose
\* cell holds no data reads the grid again and returns exactly -9999.
C15_SentinelNeverCached ==
    /\ SentinelNotStored
    /\ \A w \in Workers :
        (Returned(w, "single") /\ InBox(th[w].lat, th[w].lon)
            /\ GridAnswer(th[w].lat, th[w].lon) = Fixed(-9999))
            => (th[w].ret.val = Fixed(-9999) /\ th[w].ret.how = "nodata")

\* C16: every grid LoadFromFile succeeded on satisfies the header invariant
\* (width, height > 0, minLat < maxLat, minLon < maxLon, gridSize > 0) and has
\* exactly width*height cells, whatever the header file held.
C16_HeaderInvariantAfterLoad ==
    lpc \in {"loaded", "serving"} => HeaderInvariant

\* A step that is a whole GetHealth call: a call is made and no goroutine
\* enters or leaves a lookup.
HealthStep ==
    ncalls' = ncalls + 1 /\ \A w \in Workers : th'[w].pc = th[w].pc

\* Whenever no writer holds the lock, the counter is the sum of the whole
\* increments (1 per single call, len(points) per batch) of the calls that
\* have taken the lock; a health report carries status "ok" and the counter as
\* it stood then, the sum of the whole increments of the calls before it.
WholeIncrements ==
    /\ mu = 0 => requests = issued
    /\ \A w \in Workers :
        Returned(w, "health") =>
            /\ th[w].ret.status = "ok"
            /\ th[w].ret.total = th[w].ret.made
            /\ th[w].ret.total <= requests

\* C17: a GetHealth running beside GetElevation and GetBatchElevations calls
\* reports "ok" and a total made of whole increments only, never part of a
\* batch's, and the call leaves the counter, the cache, the grid and the lock
\* as they were.
C17_HealthSeesWholeIncrements ==
    /\ []WholeIncrements
    /\ [][HealthStep =>
            /\ requests' = requests
            /\ hotspotCache' = hotspotCache
            /\ eg' = eg
            /\ mu' = mu
            /\ \E w \in Workers :
                /\ th'[w].pc = "idle" /\ th'[w].ret.kind = "health"
                /\ th'[w].ret.status = "ok"
                /\ th'[w].ret.total = requests]_vars

C17_Witness ==
    \E v, w \in Workers :
        /\ Returned(v, "health")
        /\ th[v].ret.total = 2
        /\ th[w].kind = "batch"
        /\ th[w].pc = "bstore"
        /\ Len(th[w].points) = 2
        /\ th[w].tmp = 0

====
